---------------------------- MODULE Spec2Model ----------------------------
(***************************************************************************)
(* Model of src/app.py: a Flask + SQLAlchemy (SQLite) user-profile CRUD    *)
(* application.  Strings are sequences of one-character strings, so that   *)
(* str.strip(), str.split('@') and str.replace('_', ' ') are computed and  *)
(* not assumed.                                                            *)
(*                                                                         *)
(* Three specifications share the operators that model the code:           *)
(*   SpecValidate  applies validate_user_input to bounded field sets;      *)
(*   Spec          runs each request handler as one atomic action          *)
(*                 (requests served one after another);                    *)
(*   SpecConc      runs register / edit / delete requests of several       *)
(*                 workers, interleaved between their database statements. *)
(***************************************************************************)
EXTENDS Integers, Sequences, FiniteSets, TLC

VARIABLES
    users,      \* the user table: row id -> row (committed rows only)
    assigned,   \* history: every id a committed INSERT has ever produced
    resp,       \* Spec: the last request served and its response
    data,       \* SpecValidate: the field set last handed to the validator
    result,     \* SpecValidate: what validate_user_input returned for it
    pc,         \* SpecConc: each worker's position in its handler
    req,        \* SpecConc: each worker's request (operation, id, form_data)
    loaded,     \* SpecConc: the ORM object each worker's session holds
    out         \* SpecConc: each worker's response

vars == <<users, assigned, resp, data, result, pc, req, loaded, out>>

-----------------------------------------------------------------------------
(* Bounds *)

MaxEmailLen == 4    \* SpecValidate: emails are all strings up to this length
MaxNameLen == 3     \* SpecValidate: usernames are all strings up to this length
MaxUsers == 2       \* Spec / SpecConc: rows the table may hold at once

-----------------------------------------------------------------------------
(* Strings *)

\* marks a form field the client did not post (no string equals it)
Absent == <<"<absent>">>

EmailAlphabet == {"a", "@", ".", " "}
NameAlphabet == {"a", " "}

StringsUpTo(alphabet, n) == UNION {[1..k -> alphabet] : k \in 0..n}

\* str.strip() with no argument: drop leading and trailing whitespace
RECURSIVE LStrip(_)
LStrip(s) == IF s # <<>> /\ Head(s) = " " THEN LStrip(Tail(s)) ELSE s

RECURSIVE RStrip(_)
RStrip(s) ==
    IF s # <<>> /\ s[Len(s)] = " " THEN RStrip(SubSeq(s, 1, Len(s) - 1)) ELSE s

Strip(s) == RStrip(LStrip(s))

\* x in s, for a one-character x
Contains(s, c) == \E i \in 1..Len(s) : s[i] = c

\* str.split(sep): the list of the pieces between the separators
RECURSIVE SplitFrom(_, _, _)
SplitFrom(s, sep, piece) ==
    IF s = <<>> THEN <<piece>>
    ELSE IF Head(s) = sep THEN <<piece>> \o SplitFrom(Tail(s), sep, <<>>)
    ELSE SplitFrom(Tail(s), sep, Append(piece, Head(s)))

Split(s, sep) == SplitFrom(s, sep, <<>>)

\* str.replace(old, new), for one-character old and new
Replace(s, old, new) == [i \in 1..Len(s) |-> IF s[i] = old THEN new ELSE s[i]]

\* the characters of the field names the validator formats into its message
FieldChars(field) ==
    CASE field = "username" -> <<"u","s","e","r","n","a","m","e">>
      [] field = "email" -> <<"e","m","a","i","l">>
      [] field = "first_name" -> <<"f","i","r","s","t","_","n","a","m","e">>
      [] field = "last_name" -> <<"l","a","s","t","_","n","a","m","e">>

-----------------------------------------------------------------------------
(* validate_user_input *)

required_fields == <<"username", "email", "first_name", "last_name">>

\* field not in data or not data[field].strip()
FieldMissing(d, field) == field \notin DOMAIN d \/ Strip(d[field]) = <<>>

RequiredMessage(field) ==
    <<"Field '", Replace(FieldChars(field), "_", " "), "' is required.">>

InvalidEmailMessage == <<"Please enter a valid email address.">>
ShortUsernameMessage == <<"Username must be at least 3 characters long.">>

\* mutant: looks for the '.' in the piece after the last '@'
EmailFormatBadLastPiece(email) ==
    ~Contains(email, "@")
        \/ ~Contains(Split(email, "@")[Len(Split(email, "@"))], ".")

\* '@' not in data['email'] or '.' not in data['email'].split('@')[1]
\* (Python lists count from 0, sequences from 1)
EmailFormatBad(email) ==
    ~Contains(email, "@") \/ ~Contains(Split(email, "@")[2], ".")

\* len(data['username'].strip()) < 3
UsernameTooShort(username) == Len(Strip(username)) < 3

\* for field in required_fields: the position of the first field the loop
\* returns on, 0 if it runs to its end
RECURSIVE FirstMissing(_, _)
FirstMissing(d, i) ==
    IF i > Len(required_fields) THEN 0
    ELSE IF FieldMissing(d, required_fields[i]) THEN i
    ELSE FirstMissing(d, i + 1)

\* mutant: the username length is checked before the email format
validate_user_input_length_first(d) ==
    LET missing == FirstMissing(d, 1) IN
    IF missing # 0 THEN <<FALSE, RequiredMessage(required_fields[missing])>>
    ELSE IF UsernameTooShort(d["username"]) THEN <<FALSE, ShortUsernameMessage>>
    ELSE IF EmailFormatBad(d["email"]) THEN <<FALSE, InvalidEmailMessage>>
    ELSE <<TRUE, <<>>>>

validate_user_input(d) ==
    LET missing == FirstMissing(d, 1) IN
    IF missing # 0 THEN <<FALSE, RequiredMessage(required_fields[missing])>>
    ELSE IF EmailFormatBad(d["email"]) THEN <<FALSE, InvalidEmailMessage>>
    ELSE IF UsernameTooShort(d["username"]) THEN <<FALSE, ShortUsernameMessage>>
    ELSE <<TRUE, <<>>>>

-----------------------------------------------------------------------------
(* The User table (SQLite through SQLAlchemy) *)

\* Python's None, as a query result
None == [none |-> TRUE]
MaxId == 3          \* registrations stop once the next row id would pass this

Columns == {"username", "email", "first_name", "last_name", "bio"}

Max(S) == CHOOSE x \in S : \A y \in S : y <= x

\* User(username=..., email=..., first_name=..., last_name=..., bio=...)
Row(id, form) ==
    [id |-> id, username |-> form["username"], email |-> form["email"],
     first_name |-> form["first_name"], last_name |-> form["last_name"],
     bio |-> form["bio"]]

\* User.query.get(user_id)
Get(U, id) == IF id \in DOMAIN U THEN U[id] ELSE None

\* User.query.filter_by(username=...).first() is not None
UsernameTaken(U, username) == \E i \in DOMAIN U : U[i].username = username

\* User.query.filter_by(email=...).first() is not None
EmailTaken(U, email) == \E i \in DOMAIN U : U[i].email = email

\* id = db.Column(db.Integer, primary_key=True) on SQLite: an INTEGER PRIMARY
\* KEY without AUTOINCREMENT is the rowid, and a new row takes one more than
\* the largest rowid in the table (1 in an empty table)
NewRowId(U) == IF DOMAIN U = {} THEN 1 ELSE Max(DOMAIN U) + 1

\* mutant: neither column carries a unique constraint
NoUniqueConstraint(U, row) == FALSE

\* mutant: the email column carries no unique constraint
UniqueViolationUsernameOnly(U, row) ==
    \E i \in DOMAIN U \ {row.id} : U[i].username = row.username

\* unique=True on username and on email: a statement that would leave two
\* rows with the same value fails with an IntegrityError
UniqueViolation(U, row) ==
    \E i \in DOMAIN U \ {row.id} :
        U[i].username = row.username \/ U[i].email = row.email

IntegrityError == <<"I","n","t","e","g","r","i","t","y","E","r","r","o","r">>
StaleDataError == <<"S","t","a","l","e","D","a","t","a","E","r","r","o","r">>

\* db.session.add(new_user); db.session.commit()
InsertUser(U, form) ==
    LET row == Row(NewRowId(U), form) IN
    IF UniqueViolation(U, row)
    THEN [ok |-> FALSE, users |-> U, error |-> IntegrityError]
    ELSE [ok |-> TRUE,
          users |-> [i \in DOMAIN U \cup {row.id} |->
                        IF i = row.id THEN row ELSE U[i]],
          error |-> <<>>]

\* mutant: the bio is not written
UpdateUserWithoutBio(U, user, form) ==
    LET changed == {c \in Columns \ {"bio"} : form[c] # user[c]}
        row == [c \in Columns \cup {"id"} |->
                   IF c \in changed THEN form[c] ELSE U[user.id][c]]
    IN  IF changed = {} THEN [ok |-> TRUE, users |-> U, error |-> <<>>]
        ELSE IF user.id \notin DOMAIN U
        THEN [ok |-> FALSE, users |-> U, error |-> StaleDataError]
        ELSE IF UniqueViolation(U, row)
        THEN [ok |-> FALSE, users |-> U, error |-> IntegrityError]
        ELSE [ok |-> TRUE, users |-> [U EXCEPT ![user.id] = row],
              error |-> <<>>]

\* user.username = ...; ...; user.bio = ...; db.session.commit()
\* The unit of work writes the attributes whose value differs from the one
\* the session loaded, in one UPDATE ... WHERE id = ?; it writes nothing if
\* none differs, and raises StaleDataError if the UPDATE matches no row.
UpdateUser(U, user, form) ==
    LET changed == {c \in Columns : form[c] # user[c]}
        row == [c \in Columns \cup {"id"} |->
                   IF c \in changed THEN form[c] ELSE U[user.id][c]]
    IN  IF changed = {} THEN [ok |-> TRUE, users |-> U, error |-> <<>>]
        ELSE IF user.id \notin DOMAIN U
        THEN [ok |-> FALSE, users |-> U, error |-> StaleDataError]
        ELSE IF UniqueViolation(U, row)
        THEN [ok |-> FALSE, users |-> U, error |-> IntegrityError]
        ELSE [ok |-> TRUE, users |-> [U EXCEPT ![user.id] = row],
              error |-> <<>>]

\* mutant: the DELETE also removes the rows inserted after the user's
DeleteUserAndLater(U, user) ==
    [i \in {j \in DOMAIN U : j < user.id} |-> U[i]]

\* db.session.delete(user); db.session.commit()
\* (a DELETE that matches no row only warns)
DeleteUser(U, user) == [i \in DOMAIN U \ {user.id} |-> U[i]]

-----------------------------------------------------------------------------
(* Requests and responses *)

UsernameExistsMessage ==
    <<"Username already exists. Please choose a different username.">>
EmailExistsMessage ==
    <<"Email already registered. Please use a different email.">>
NotFoundMessage == <<"User not found.">>
UpdatedMessage == <<"Profile updated successfully!">>
RegisteredMessage(username) ==
    <<"User ", username, " registered successfully!">>
DeletedMessage(username) == <<"User ", username, " deleted successfully!">>
RegisterErrorMessage(e) == <<"An error occurred during registration: ", e>>
EditErrorMessage(e) == <<"An error occurred while updating the profile: ", e>>

\* {'username': request.form.get('username', ''), ...}
form_data(form) ==
    [c \in Columns |-> IF c \in DOMAIN form THEN form[c] ELSE <<>>]

Response(page, flash) == [page |-> page, flash |-> flash]

\* the fields a client posts: a value for some of the five form fields
PostedForm(u, e, f, l, b) ==
    LET v == [c \in Columns |->
                CASE c = "username" -> u [] c = "email" -> e
                  [] c = "first_name" -> f [] c = "last_name" -> l
                  [] c = "bio" -> b]
    IN  [c \in {k \in Columns : v[k] # Absent} |-> v[c]]

Usernames ==
    {<<"a","b","c">>, <<" ","a","b","c">>, <<"a","b","d">>, <<"a","b">>}
Emails ==
    {<<"a","@","b",".","c">>, <<"d","@","e",".","f">>, <<"b","a","d">>}
\* first name, last name, bio
Details == {<<<<"A">>, <<"B">>, Absent>>, <<<<"Z">>, <<"Y">>, <<"h","i">>>>}

Forms ==
    {PostedForm(u, e, d[1], d[2], d[3]) :
        u \in Usernames, e \in Emails, d \in Details}

Ids == 1..MaxId

-----------------------------------------------------------------------------
(* The request handlers, each run start to finish *)

\* mutant: the email is looked up before the username
register_email_first(U, posted) ==
    LET form == form_data(posted)
        v == validate_user_input(form)
        ins == InsertUser(U, form)
    IN  IF ~v[1]
        THEN [users |-> U, response |-> Response("register.html", v[2])]
        ELSE IF EmailTaken(U, form["email"])
        THEN [users |-> U,
              response |-> Response("register.html", EmailExistsMessage)]
        ELSE IF UsernameTaken(U, form["username"])
        THEN [users |-> U,
              response |-> Response("register.html", UsernameExistsMessage)]
        ELSE IF ins.ok
        THEN [users |-> ins.users,
              response |->
                  Response("index", RegisteredMessage(form["username"]))]
        ELSE [users |-> U,
              response |->
                  Response("register.html", RegisterErrorMessage(ins.error))]

\* register(), request.method == 'POST'
register(U, posted) ==
    LET form == form_data(posted)
        v == validate_user_input(form)
        ins == InsertUser(U, form)
    IN  IF ~v[1]
        THEN [users |-> U, response |-> Response("register.html", v[2])]
        ELSE IF UsernameTaken(U, form["username"])
        THEN [users |-> U,
              response |-> Response("register.html", UsernameExistsMessage)]
        ELSE IF EmailTaken(U, form["email"])
        THEN [users |-> U,
              response |-> Response("register.html", EmailExistsMessage)]
        ELSE IF ins.ok
        THEN [users |-> ins.users,
              response |->
                  Response("index", RegisteredMessage(form["username"]))]
        ELSE [users |-> U,
              response |->
                  Response("register.html", RegisterErrorMessage(ins.error))]

\* view_profile(user_id)
view_profile(U, user_id) ==
    LET user == Get(U, user_id) IN
    IF user = None THEN Response("index", NotFoundMessage)
    ELSE [page |-> "profile.html", flash |-> <<>>, user |-> user]

\* mutant: the uniqueness lookups are made whether or not the value changed
edit_profile_unconditional(U, user_id, posted) ==
    LET user == Get(U, user_id)
        form == form_data(posted)
        v == validate_user_input(form)
        upd == UpdateUser(U, user, form)
    IN  IF user = None
        THEN [users |-> U, response |-> Response("index", NotFoundMessage)]
        ELSE IF ~v[1]
        THEN [users |-> U, response |-> Response("edit_profile.html", v[2])]
        ELSE IF UsernameTaken(U, form["username"])
        THEN [users |-> U,
              response |->
                  Response("edit_profile.html", UsernameExistsMessage)]
        ELSE IF EmailTaken(U, form["email"])
        THEN [users |-> U,
              response |-> Response("edit_profile.html", EmailExistsMessage)]
        ELSE IF upd.ok
        THEN [users |-> upd.users,
              response |-> Response("view_profile", UpdatedMessage)]
        ELSE [users |-> U,
              response |->
                  Response("edit_profile.html", EditErrorMessage(upd.error))]

\* edit_profile(user_id), request.method == 'POST'
edit_profile(U, user_id, posted) ==
    LET user == Get(U, user_id)
        form == form_data(posted)
        v == validate_user_input(form)
        upd == UpdateUser(U, user, form)
    IN  IF user = None
        THEN [users |-> U, response |-> Response("index", NotFoundMessage)]
        ELSE IF ~v[1]
        THEN [users |-> U, response |-> Response("edit_profile.html", v[2])]
        ELSE IF form["username"] # user.username
                /\ UsernameTaken(U, form["username"])
        THEN [users |-> U,
              response |->
                  Response("edit_profile.html", UsernameExistsMessage)]
        ELSE IF form["email"] # user.email /\ EmailTaken(U, form["email"])
        THEN [users |-> U,
              response |-> Response("edit_profile.html", EmailExistsMessage)]
        ELSE IF upd.ok
        THEN [users |-> upd.users,
              response |-> Response("view_profile", UpdatedMessage)]
        ELSE [users |-> U,
              response |->
                  Response("edit_profile.html", EditErrorMessage(upd.error))]

\* delete_profile(user_id)
delete_profile(U, user_id) ==
    LET user == Get(U, user_id) IN
    IF user = None
    THEN [users |-> U, response |-> Response("index", NotFoundMessage)]
    ELSE [users |-> DeleteUser(U, user),
          response |-> Response("index", DeletedMessage(user.username))]

-----------------------------------------------------------------------------
(* Initial values *)

EmptyTable == [i \in {} |-> None]
NoRequest == [op |-> "none"]
Workers == {"w1", "w2"}

InitStore == users = EmptyTable /\ assigned = {}
InitServer == resp = NoRequest
InitValidator == data = EmptyTable /\ result = <<>>
InitWorkers ==
    /\ pc = [w \in Workers |-> "idle"]
    /\ req = [w \in Workers |-> NoRequest]
    /\ loaded = [w \in Workers |-> None]
    /\ out = [w \in Workers |-> None]

storeVars == <<users, assigned>>
validatorVars == <<data, result>>
workerVars == <<pc, req, loaded, out>>

-----------------------------------------------------------------------------
(* SpecValidate: validate_user_input on bounded field sets *)

RequiredFields == {required_fields[i] : i \in 1..Len(required_fields)}

FieldSets ==
    {PostedForm(u, e, f, l, Absent) :
        u \in StringsUpTo(NameAlphabet, MaxNameLen) \cup {Absent},
        e \in StringsUpTo(EmailAlphabet, MaxEmailLen) \cup {Absent},
        f \in {Absent, <<" ">>, <<"A">>},
        l \in {Absent, <<" ">>, <<"B">>}}

InitValidate ==
    /\ data \in FieldSets
    /\ result = <<>>
    /\ InitStore /\ InitServer /\ InitWorkers

Validate ==
    /\ result = <<>>
    /\ result' = validate_user_input(data)
    /\ UNCHANGED <<data, storeVars, resp, workerVars>>

NextValidate == Validate

SpecValidate == InitValidate /\ [][NextValidate]_vars

-----------------------------------------------------------------------------
(* Spec: requests served one at a time *)

Init == InitStore /\ InitServer /\ InitValidator /\ InitWorkers

\* the table has room for the row a registration may add
Room(n) == Cardinality(DOMAIN users) + n < MaxUsers /\ NewRowId(users) + n <= MaxId

Served(op, user_id, posted, r) ==
    /\ users' = r.users
    /\ assigned' = assigned \cup (DOMAIN r.users \ DOMAIN users)
    /\ resp' = [op |-> op, user_id |-> user_id, posted |-> posted,
                user |-> IF op = "edit" THEN Get(users, user_id) ELSE None,
                response |-> r.response]
    /\ UNCHANGED <<validatorVars, workerVars>>

Register(posted) ==
    /\ Room(0)
    /\ Served("register", 0, posted, register(users, posted))

ViewProfile(user_id) ==
    Served("view", user_id, EmptyTable,
           [users |-> users, response |-> view_profile(users, user_id)])

EditProfile(user_id, posted) ==
    Served("edit", user_id, posted, edit_profile(users, user_id, posted))

DeleteProfile(user_id) ==
    Served("delete", user_id, EmptyTable, delete_profile(users, user_id))

Next ==
    \/ \E posted \in Forms : Register(posted)
    \/ \E user_id \in Ids : ViewProfile(user_id)
    \/ \E user_id \in Ids, posted \in Forms : EditProfile(user_id, posted)
    \/ \E user_id \in Ids : DeleteProfile(user_id)

Spec == Init /\ [][Next]_vars

-----------------------------------------------------------------------------
(* SpecConc: requests of several workers, interleaved between statements *)

\* the forms the interleaved requests post: two with one username, two with
\* one email, two that differ in the other fields only, one that fails
\* validation
ConcForms ==
    {PostedForm(<<"a","b","c">>, <<"a","@","b",".","c">>,
                <<"A">>, <<"B">>, Absent),
     PostedForm(<<"a","b","c">>, <<"a","@","b",".","c">>,
                <<"Z">>, <<"Y">>, <<"h","i">>),
     PostedForm(<<"a","b","c">>, <<"d","@","e",".","f">>,
                <<"A">>, <<"B">>, Absent),
     PostedForm(<<"a","b","d">>, <<"a","@","b",".","c">>,
                <<"A">>, <<"B">>, Absent),
     PostedForm(<<"a","b">>, <<"d","@","e",".","f">>,
                <<"A">>, <<"B">>, Absent)}

\* the registrations that have passed validation and not yet committed
InFlight == {w \in Workers : pc[w] \in {"reg_username", "reg_email", "reg_commit"}}

\* the request ends: its response goes out, its request and its session are
\* discarded
Finish(w, response) ==
    /\ pc' = [pc EXCEPT ![w] = "idle"]
    /\ req' = [req EXCEPT ![w] = NoRequest]
    /\ loaded' = [loaded EXCEPT ![w] = None]
    /\ out' = [out EXCEPT ![w] = response]

\* the request goes on to its next statement
Goto(w, label) ==
    /\ pc' = [pc EXCEPT ![w] = label]
    /\ req' = req
    /\ out' = [out EXCEPT ![w] = None]

\* the request passes its first checks and goes on to its lookups
Start(w, label, request) ==
    /\ pc' = [pc EXCEPT ![w] = label]
    /\ req' = [req EXCEPT ![w] = request]
    /\ out' = [out EXCEPT ![w] = None]

Commit(U) ==
    /\ users' = U
    /\ assigned' = assigned \cup (DOMAIN U \ DOMAIN users)

\* register(): form_data and validate_user_input
RegisterBegin(w, posted) ==
    LET form == form_data(posted)
        v == validate_user_input(form)
    IN  /\ pc[w] = "idle"
        /\ Room(Cardinality(InFlight))
        /\ IF ~v[1]
           THEN Finish(w, Response("register.html", v[2]))
           ELSE /\ Start(w, "reg_username",
                         [op |-> "register", user_id |-> 0, form |-> form])
                /\ UNCHANGED loaded
        /\ UNCHANGED <<storeVars, resp, validatorVars>>

\* register(): the username lookup
RegisterCheckUsername(w) ==
    /\ pc[w] = "reg_username"
    /\ IF UsernameTaken(users, req[w].form["username"])
       THEN Finish(w, Response("register.html", UsernameExistsMessage))
       ELSE Goto(w, "reg_email") /\ UNCHANGED loaded
    /\ UNCHANGED <<storeVars, resp, validatorVars>>

\* register(): the email lookup
RegisterCheckEmail(w) ==
    /\ pc[w] = "reg_email"
    /\ IF EmailTaken(users, req[w].form["email"])
       THEN Finish(w, Response("register.html", EmailExistsMessage))
       ELSE Goto(w, "reg_commit") /\ UNCHANGED loaded
    /\ UNCHANGED <<storeVars, resp, validatorVars>>

\* register(): add, commit, and the except branch
RegisterCommit(w) ==
    LET form == req[w].form
        ins == InsertUser(users, form)
    IN  /\ pc[w] = "reg_commit"
        /\ IF ins.ok
           THEN /\ Commit(ins.users)
                /\ Finish(w, Response("index",
                                      RegisteredMessage(form["username"])))
           ELSE /\ UNCHANGED storeVars
                /\ Finish(w, Response("register.html",
                                      RegisterErrorMessage(ins.error)))
        /\ UNCHANGED <<resp, validatorVars>>

\* edit_profile(): User.query.get, form_data and validate_user_input
EditBegin(w, user_id, posted) ==
    LET user == Get(users, user_id)
        form == form_data(posted)
        v == validate_user_input(form)
    IN  /\ pc[w] = "idle"
        /\ IF user = None
           THEN Finish(w, Response("index", NotFoundMessage))
           ELSE IF ~v[1]
           THEN Finish(w, Response("edit_profile.html", v[2]))
           ELSE /\ Start(w, "edit_username",
                         [op |-> "edit", user_id |-> user_id, form |-> form])
                /\ loaded' = [loaded EXCEPT ![w] = user]
        /\ UNCHANGED <<storeVars, resp, validatorVars>>

\* edit_profile(): the username lookup, made if the username changes
EditCheckUsername(w) ==
    /\ pc[w] = "edit_username"
    /\ IF /\ req[w].form["username"] # loaded[w].username
          /\ UsernameTaken(users, req[w].form["username"])
       THEN Finish(w, Response("edit_profile.html", UsernameExistsMessage))
       ELSE Goto(w, "edit_email") /\ UNCHANGED loaded
    /\ UNCHANGED <<storeVars, resp, validatorVars>>

\* edit_profile(): the email lookup, made if the email changes
EditCheckEmail(w) ==
    /\ pc[w] = "edit_email"
    /\ IF /\ req[w].form["email"] # loaded[w].email
          /\ EmailTaken(users, req[w].form["email"])
       THEN Finish(w, Response("edit_profile.html", EmailExistsMessage))
       ELSE Goto(w, "edit_commit") /\ UNCHANGED loaded
    /\ UNCHANGED <<storeVars, resp, validatorVars>>

\* edit_profile(): the assignments, commit, and the except branch
EditCommit(w) ==
    LET upd == UpdateUser(users, loaded[w], req[w].form) IN
    /\ pc[w] = "edit_commit"
    /\ IF upd.ok
       THEN /\ Commit(upd.users)
            /\ Finish(w, Response("view_profile", UpdatedMessage))
       ELSE /\ UNCHANGED storeVars
            /\ Finish(w, Response("edit_profile.html",
                                  EditErrorMessage(upd.error)))
    /\ UNCHANGED <<resp, validatorVars>>

\* delete_profile(): User.query.get
DeleteBegin(w, user_id) ==
    LET user == Get(users, user_id) IN
    /\ pc[w] = "idle"
    /\ IF user = None
       THEN Finish(w, Response("index", NotFoundMessage))
       ELSE /\ Start(w, "delete_commit",
                     [op |-> "delete", user_id |-> user_id,
                      form |-> EmptyTable])
            /\ loaded' = [loaded EXCEPT ![w] = user]
    /\ UNCHANGED <<storeVars, resp, validatorVars>>

\* delete_profile(): delete and commit
DeleteCommit(w) ==
    /\ pc[w] = "delete_commit"
    /\ Commit(DeleteUser(users, loaded[w]))
    /\ Finish(w, Response("index", DeletedMessage(loaded[w].username)))
    /\ UNCHANGED <<resp, validatorVars>>

NextConc ==
    \E w \in Workers :
        \/ \E posted \in ConcForms : RegisterBegin(w, posted)
        \/ RegisterCheckUsername(w)
        \/ RegisterCheckEmail(w)
        \/ RegisterCommit(w)
        \/ \E user_id \in Ids, posted \in ConcForms :
               EditBegin(w, user_id, posted)
        \/ EditCheckUsername(w)
        \/ EditCheckEmail(w)
        \/ EditCommit(w)
        \/ \E user_id \in Ids : DeleteBegin(w, user_id)
        \/ DeleteCommit(w)

SpecConc == Init /\ [][NextConc]_vars

-----------------------------------------------------------------------------
(* Claims about validate_user_input (SpecValidate) *)

\* the field is absent, or holds nothing but whitespace
Blank(d, field) ==
    field \notin DOMAIN d \/ \A i \in 1..Len(d[field]) : d[field][i] = " "

NoneBlank(d) == \A field \in RequiredFields : ~Blank(d, field)

\* the number of characters from the first to the last non-blank one
TrimmedLen(s) ==
    LET solid == {i \in 1..Len(s) : s[i] # " "} IN
    IF solid = {} THEN 0
    ELSE (CHOOSE i \in solid : \A j \in solid : j <= i)
             - (CHOOSE i \in solid : \A j \in solid : i <= j) + 1

Validated == result # <<>>

ExpectedResult(d) ==
    IF Blank(d, "username")
    THEN <<FALSE, <<"Field '", <<"u","s","e","r","n","a","m","e">>,
                    "' is required.">>>>
    ELSE IF Blank(d, "email")
    THEN <<FALSE, <<"Field '", <<"e","m","a","i","l">>, "' is required.">>>>
    ELSE IF Blank(d, "first_name")
    THEN <<FALSE, <<"Field '", <<"f","i","r","s","t"," ","n","a","m","e">>,
                    "' is required.">>>>
    ELSE IF Blank(d, "last_name")
    THEN <<FALSE, <<"Field '", <<"l","a","s","t"," ","n","a","m","e">>,
                    "' is required.">>>>
    ELSE IF EmailFormatBad(d["email"])
    THEN <<FALSE, <<"Please enter a valid email address.">>>>
    ELSE IF TrimmedLen(d["username"]) < 3
    THEN <<FALSE, <<"Username must be at least 3 characters long.">>>>
    ELSE <<TRUE, <<>>>>

\* C2: validate_user_input applies its checks in a fixed order and the first
\* failure decides the message: the first of username, email, first_name,
\* last_name that is absent or blank gives "Field '<name, underscores as
\* spaces>' is required."; otherwise a failed email format check gives
\* "Please enter a valid email address." (also when the username is too
\* short); otherwise a trimmed username of fewer than 3 characters gives
\* "Username must be at least 3 characters long."; otherwise (True, "").
C2_ValidateOrder == Validated => result = ExpectedResult(data)

\* a field set with a bad email and a short username, answered with the
\* email message
C2_Witness ==
    /\ Validated /\ NoneBlank(data)
    /\ EmailFormatBad(data["email"])
    /\ TrimmedLen(data["username"]) < 3
    /\ result = <<FALSE, <<"Please enter a valid email address.">>>>

FormatRejected == result = <<FALSE, <<"Please enter a valid email address.">>>>

\* the email has an '@' and a '.' somewhere after its first '@'
DotAfterFirstAt(email) ==
    \E i \in 1..Len(email) :
        /\ email[i] = "@"
        /\ \A j \in 1..(i - 1) : email[j] # "@"
        /\ \E k \in (i + 1)..Len(email) : email[k] = "."

\* the email has an '@' and a '.' after its first '@' and before any
\* second '@'
DotBeforeSecondAt(email) ==
    \E i \in 1..Len(email) :
        /\ email[i] = "@"
        /\ \A j \in 1..(i - 1) : email[j] # "@"
        /\ \E k \in (i + 1)..Len(email) :
            /\ email[k] = "."
            /\ \A m \in (i + 1)..k : email[m] # "@"

\* C3 as stated: with the four required fields non-blank, the email format
\* check passes if and only if the email contains '@' and the substring after
\* the first '@' contains '.' (so "a@b@c.com" passes).
C3_AsStated ==
    (Validated /\ NoneBlank(data))
        => (~FormatRejected <=> DotAfterFirstAt(data["email"]))

\* C3 amended: with the four required fields non-blank, the email format
\* check passes if and only if the email contains '@' and the piece between
\* its first '@' and its next '@' (or its end) contains '.'.
C3_EmailFormat ==
    (Validated /\ NoneBlank(data))
        => (~FormatRejected <=> DotBeforeSecondAt(data["email"]))

\* an email with two '@' whose only '.' follows the second, rejected
C3_Witness ==
    /\ Validated /\ NoneBlank(data)
    /\ DotAfterFirstAt(data["email"])
    /\ ~DotBeforeSecondAt(data["email"])
    /\ FormatRejected

-----------------------------------------------------------------------------
(* Claims about the handlers, requests served one at a time (Spec) *)

\* the posted fields pass every check of the validator
PassesValidation(posted) ==
    /\ NoneBlank(posted)
    /\ DotBeforeSecondAt(posted["email"])
    /\ TrimmedLen(posted["username"]) >= 3

HoldsUsername(U, ids, username) == \E i \in ids : U[i].username = username
HoldsEmail(U, ids, email) == \E i \in ids : U[i].email = email

\* the bio a request submits: the posted one, or the empty string
SubmittedBio(posted) == IF "bio" \in DOMAIN posted THEN posted["bio"] ELSE <<>>

\* C4: a registration that passes validation and whose username equals a live
\* record's is rejected with "Username already exists. Please choose a
\* different username." (also when the email differs, and before the email
\* message when both collide); one whose username is free and whose email
\* equals a live record's is rejected with "Email already registered. Please
\* use a different email."; either way no record is created and every
\* existing record is left unchanged.
C4_RegisterCollision ==
    [][(resp'.op = "register" /\ PassesValidation(resp'.posted)) =>
        LET posted == resp'.posted
            flash == resp'.response.flash
        IN  /\ HoldsUsername(users, DOMAIN users, posted["username"]) =>
                /\ flash = <<"Username already exists. Please choose a different username.">>
                /\ users' = users
            /\ (/\ ~HoldsUsername(users, DOMAIN users, posted["username"])
                /\ HoldsEmail(users, DOMAIN users, posted["email"])) =>
                /\ flash = <<"Email already registered. Please use a different email.">>
                /\ users' = users
      ]_vars

\* a registration with a live record's username and an email no record
\* holds, answered with the username message
C4_Witness ==
    /\ resp.op = "register"
    /\ PassesValidation(resp.posted)
    /\ HoldsUsername(users, DOMAIN users, resp.posted["username"])
    /\ ~HoldsEmail(users, DOMAIN users, resp.posted["email"])
    /\ resp.response.flash =
           <<"Username already exists. Please choose a different username.">>

EditSucceeded(r) ==
    r.op = "edit" /\ r.response.flash = <<"Profile updated successfully!">>

\* C5: after a successful edit of the record with a given id, a lookup by
\* that id returns exactly the five submitted values, the record's id is
\* unchanged, the number of records is unchanged and every other record is
\* unchanged.
C5_EditEffect ==
    [][EditSucceeded(resp') =>
        LET id == resp'.user_id
            posted == resp'.posted
        IN  /\ view_profile(users', id).page = "profile.html"
            /\ view_profile(users', id).user =
                   [id |-> id, username |-> posted["username"],
                    email |-> posted["email"],
                    first_name |-> posted["first_name"],
                    last_name |-> posted["last_name"],
                    bio |-> SubmittedBio(posted)]
            /\ Cardinality(DOMAIN users') = Cardinality(DOMAIN users)
            /\ \A j \in DOMAIN users \ {id} :
                   j \in DOMAIN users' /\ users'[j] = users[j]
      ]_vars

\* a successful edit that changed the record, with another record beside it
C5_Witness ==
    /\ EditSucceeded(resp)
    /\ resp.user # users[resp.user_id]
    /\ Cardinality(DOMAIN users) = 2

DeleteSucceeded(r) ==
    /\ r.op = "delete"
    /\ \E username \in Usernames :
           r.response.flash = <<"User ", username, " deleted successfully!">>

\* C6: after a successful delete of the record with a given id, a lookup by
\* that id returns not-found, the record count is exactly one less and every
\* other record is unchanged; a delete of an id with no record signals
\* "User not found." and leaves the store unchanged.
C6_DeleteEffect ==
    [][resp'.op = "delete" =>
        LET id == resp'.user_id IN
        /\ DeleteSucceeded(resp') =>
            /\ id \in DOMAIN users
            /\ view_profile(users', id) =
                   [page |-> "index", flash |-> <<"User not found.">>]
            /\ Cardinality(DOMAIN users') = Cardinality(DOMAIN users) - 1
            /\ \A j \in DOMAIN users \ {id} :
                   j \in DOMAIN users' /\ users'[j] = users[j]
        /\ id \in DOMAIN users => DeleteSucceeded(resp')
        /\ id \notin DOMAIN users =>
            /\ resp'.response.flash = <<"User not found.">>
            /\ users' = users
      ]_vars

\* a successful delete that left another record in the table
C6_Witness ==
    /\ DeleteSucceeded(resp)
    /\ resp.user_id \notin DOMAIN users
    /\ Cardinality(DOMAIN users) = 1

\* C7 as stated: an id is assigned once at creation, no operation changes a
\* live record's id, and an id that belonged to a deleted record is never
\* assigned to a later-registered record.
C7_AsStated ==
    [][/\ \A i \in DOMAIN users \cap DOMAIN users' : users'[i].id = users[i].id
       /\ \A i \in DOMAIN users' \ DOMAIN users :
              users'[i].id = i /\ i \notin assigned
      ]_vars

\* C8 as stated: the stored username of every live record has at least 3
\* characters and no leading or trailing whitespace.
C8_AsStated ==
    \A i \in DOMAIN users :
        /\ Len(users[i].username) >= 3
        /\ users[i].username[1] # " "
        /\ users[i].username[Len(users[i].username)] # " "

\* C9: an edit with valid fields that submits the record's own current
\* username or email is not rejected as a collision on that value, and
\* succeeds unless the other value collides; an edit that changes the
\* username (resp. email) to a value another live record holds is rejected
\* with the collision message of registration and leaves every record
\* unchanged.
C9_EditConditionalUniqueness ==
    [][(/\ resp'.op = "edit"
        /\ resp'.user_id \in DOMAIN users
        /\ PassesValidation(resp'.posted)) =>
        LET id == resp'.user_id
            posted == resp'.posted
            flash == resp'.response.flash
            others == DOMAIN users \ {id}
            usernameClash ==
                /\ posted["username"] # users[id].username
                /\ HoldsUsername(users, others, posted["username"])
            emailClash ==
                /\ posted["email"] # users[id].email
                /\ HoldsEmail(users, others, posted["email"])
        IN  /\ usernameClash =>
                /\ flash = <<"Username already exists. Please choose a different username.">>
                /\ users' = users
            /\ (~usernameClash /\ emailClash) =>
                /\ flash = <<"Email already registered. Please use a different email.">>
                /\ users' = users
            /\ (~usernameClash /\ ~emailClash) =>
                   flash = <<"Profile updated successfully!">>
      ]_vars

\* a successful edit that submitted the record's own username and email
C9_Witness ==
    /\ EditSucceeded(resp)
    /\ resp.user # None
    /\ resp.posted["username"] = resp.user.username
    /\ resp.posted["email"] = resp.user.email
    /\ Cardinality(DOMAIN users) = 2

-----------------------------------------------------------------------------
(* Claims about interleaved requests (SpecConc) *)

\* C1: in every state reachable by register, edit and delete requests, with
\* their lookups and writes interleaved in any order, no two live records
\* have the same username and no two live records have the same email.
C1_UniqueUsernameAndEmail ==
    \A i, j \in DOMAIN users :
        i # j => /\ users[i].username # users[j].username
                 /\ users[i].email # users[j].email

RegistrationFailed(response) ==
    /\ response # None
    /\ response.page = "register.html"
    /\ Len(response.flash) = 2
    /\ response.flash[1] = "An error occurred during registration: "

\* two records live while a registration that passed both lookups has
\* failed at its write
C1_Witness ==
    /\ Cardinality(DOMAIN users) = 2
    /\ \E w \in Workers : RegistrationFailed(out[w])

\* C10: when registrations with the same username (or the same email) have
\* both passed the lookups before either writes, the unique constraint lets
\* at most one insert commit: a write that meets a record with its username
\* or email creates no record and changes none, and its request ends with
\* the registration form and an error message; a write that meets none adds
\* exactly its own record.
C10_RegisterRace ==
    [][\A w \in Workers : (pc[w] = "reg_commit" /\ pc'[w] = "idle") =>
        LET form == req[w].form IN
        IF \/ HoldsUsername(users, DOMAIN users, form["username"])
           \/ HoldsEmail(users, DOMAIN users, form["email"])
        THEN /\ users' = users
             /\ RegistrationFailed(out'[w])
        ELSE /\ \A i \in DOMAIN users :
                    i \in DOMAIN users' /\ users'[i] = users[i]
             /\ Cardinality(DOMAIN users') = Cardinality(DOMAIN users) + 1
             /\ \E i \in DOMAIN users' \ DOMAIN users :
                    /\ users'[i].username = form["username"]
                    /\ users'[i].email = form["email"]
             /\ out'[w].page = "index"
      ]_vars

\* both workers registered the same username at once: one is told it
\* registered, the other that its write failed, and one record is live
C10_Witness ==
    \E w, v \in Workers :
        /\ RegistrationFailed(out[w])
        /\ out[v] # None
        /\ out[v].page = "index"
        /\ Len(out[v].flash) = 3
        /\ out[v].flash[3] = " registered successfully!"
        /\ Cardinality(DOMAIN users) = 1

=============================================================================
